---- MODULE Spec2Model ----
(***************************************************************************)
(* Evidence aggregation and claim verification of web-hunter:              *)
(*   scripts/search-aggregator.py  SearchAggregator (search mode)          *)
(*   scripts/fact-checker.py       FactChecker      (verification mode)    *)
(*                                                                         *)
(* Time is in whole seconds.  An instant is a POSIX timestamp; a datetime  *)
(* is a wall-clock reading plus the flag "aware" (carries tzinfo).  The    *)
(* machine's local UTC offset is the variable tz.  Scores are kept in      *)
(* units of 1/10000 so that the freshness bonus (1000000 - age) / 10000    *)
(* stays an integer.  A title is a sequence of characters; a text of the   *)
(* fact checker is a sequence of words.                                    *)
(***************************************************************************)
EXTENDS Integers, Sequences, FiniteSets, TLC

VARIABLES
    mode,          \* the entry point exercised: "search" | "check" | "filter" |
                   \* "dedup" | "rank" | "analyze" | "verdict"
    pc,            \* position of the entry point: "call" | "await" | "done" | "again"
    sources,       \* search(): the sources argument (a set of identifiers)
    freshness,     \* search(): the freshness argument
    top,           \* search(): the top argument
    now,           \* the instant read by datetime.now()
    tz,            \* local UTC offset of the machine, in seconds
    task,          \* adapter -> "off" | "idle" | "waiting" | "done" | "hung"
    sub,           \* search_reddit: index of the subreddit being requested
    results,       \* adapter -> its local list `results`
    received,      \* adapter -> the payloads it has received, in request order
    log,           \* set of adapters that printed an error diagnostic
    doneOrder,     \* adapters in the order their coroutines returned
    all_results,   \* search(): merged list; filter/dedup entry points: the input
    output,        \* what the entry point returned
    claim,         \* check(): the claim, a sequence of words
    min_confidence \* check(): the threshold, an exact fraction

vars == <<mode, pc, sources, freshness, top, now, tz, task, sub, results,
          received, log, doneOrder, all_results, output, claim, min_confidence>>

(***************************************************************************)
(* Bounds of the model                                                     *)
(***************************************************************************)
\* the instant at which the pipeline runs (seconds since the epoch)
NowTs == 3000000
\* longest input sequence given to filter_by_freshness and remove_duplicates
MaxLen == 3

Min(a, b) == IF a <= b THEN a ELSE b
Max(a, b) == IF a >= b THEN a ELSE b

RECURSIVE Concat(_)
\* list.extend over a sequence of lists
Concat(ss) == IF ss = <<>> THEN <<>> ELSE Head(ss) \o Concat(Tail(ss))

Range(s) == {s[i] : i \in 1..Len(s)}

\* s[:n + 1] instead of s[:n]: one item too many
PySlice_OneMore(s, n) ==
    IF n + 1 >= 0 THEN SubSeq(s, 1, Min(n + 1, Len(s)))
                  ELSE SubSeq(s, 1, Max(Len(s) + n + 1, 0))

\* s[:n] of Python, n of either sign
PySlice(s, n) ==
    IF n >= 0 THEN SubSeq(s, 1, Min(n, Len(s)))
              ELSE SubSeq(s, 1, Max(Len(s) + n, 0))

(***************************************************************************)
(* datetime                                                                *)
(***************************************************************************)
NoDate == [has |-> FALSE, wall |-> 0, aware |-> FALSE]

\* datetime.fromtimestamp(ts): naive local wall-clock time
FromTimestamp(ts) == [has |-> TRUE, wall |-> ts + tz, aware |-> FALSE]

\* datetime.fromisoformat("...+00:00"): aware, wall clock in UTC
FromIsoformatUTC(ts) == [has |-> TRUE, wall |-> ts, aware |-> TRUE]

\* datetime.now(): naive local wall-clock time
DatetimeNow == now + tz

\* d.replace(tzinfo=None): drops the tzinfo, keeps the wall-clock fields
ReplaceTzinfoNone(d) == [d EXCEPT !.aware = FALSE]

\* (now - d.replace(tzinfo=None)) in seconds, as the code computes it
CodeAge(d) == DatetimeNow - ReplaceTzinfoNone(d).wall

\* the instant a datetime denotes
Instant(d) == IF d.aware THEN d.wall ELSE d.wall - tz

(***************************************************************************)
(* filter_by_freshness                                                     *)
(***************************************************************************)
Horizons == <<"hour", "day", "week", "month">>

\* "week" built as timedelta(hours=7) instead of timedelta(weeks=1)
freshness_map_WeekHours(f) ==
    CASE f = "hour"  -> 3600
      [] f = "day"   -> 86400
      [] f = "week"  -> 25200
      [] f = "month" -> 2592000
      [] OTHER       -> 25200

freshness_map(f) ==
    CASE f = "hour"  -> 3600
      [] f = "day"   -> 86400
      [] f = "week"  -> 604800
      [] f = "month" -> 2592000
      [] OTHER       -> 604800

filter_by_freshness(rs, f) ==
    LET delta == freshness_map(f)
        Keep(r) == r.published_at.has /\ CodeAge(r.published_at) <= delta
    IN  SelectSeq(rs, Keep)

(***************************************************************************)
(* remove_duplicates                                                       *)
(***************************************************************************)
Letters == {"a", "b", "i"}
Uppers  == {"A", "B", "I"}
Digits  == {"1"}

\* str.lower() on one character
LowerChar(c) ==
    CASE c = "A" -> "a"
      [] c = "B" -> "b"
      [] c = "I" -> "i"
      [] OTHER   -> c

\* \w of the re module
IsWordChar(c) == c \in Letters \cup Uppers \cup Digits \cup {"_"}

RECURSIVE LowerStr(_)
LowerStr(t) == IF t = <<>> THEN <<>> ELSE <<LowerChar(Head(t))>> \o LowerStr(Tail(t))

\* re.sub(r'[^\w]', '', title.lower())
normalized_title(t) == SelectSeq(LowerStr(t), IsWordChar)

RECURSIVE DedupLoop(_, _, _, _)
DedupLoop(rs, seen_urls, seen_titles, unique) ==
    IF rs = <<>> THEN unique
    ELSE LET r  == Head(rs)
             nt == normalized_title(r.title)
         IN  IF r.url \in seen_urls
             THEN DedupLoop(Tail(rs), seen_urls, seen_titles, unique)
             ELSE IF nt \in seen_titles
             THEN DedupLoop(Tail(rs), seen_urls, seen_titles, unique)
             ELSE DedupLoop(Tail(rs), seen_urls \cup {r.url},
                            seen_titles \cup {nt}, Append(unique, r))

RECURSIVE AdjacentLoop(_, _, _, _)
\* remove_duplicates comparing each item with the item just before it only
\* (the seen sets are overwritten, not extended, on every item)
AdjacentLoop(rs, seen_urls, seen_titles, unique) ==
    IF rs = <<>> THEN unique
    ELSE LET r  == Head(rs)
             nt == normalized_title(r.title)
         IN  AdjacentLoop(Tail(rs), {r.url}, {nt},
                          IF r.url \in seen_urls \/ nt \in seen_titles
                          THEN unique ELSE Append(unique, r))

remove_duplicates_Adjacent(rs) == AdjacentLoop(rs, {}, {}, <<>>)

remove_duplicates(rs) == DedupLoop(rs, {}, {}, <<>>)

(***************************************************************************)
(* rank_results                                                            *)
(***************************************************************************)
\* one unit of score in the model's 1/10000 units
ScoreUnit == 10000

\* the snippet bonus given from 100 characters on (>= instead of >)
RankedScore_AtLeast100(r) ==
    r.score
    + (IF r.published_at.has
       THEN Max(0, 1000000 - CodeAge(r.published_at)) ELSE 0)
    + (IF r.snippet >= 100 THEN 10 * ScoreUnit ELSE 0)

\* the score rank_results assigns to one result
RankedScore(r) ==
    r.score
    + (IF r.published_at.has
       THEN Max(0, 1000000 - CodeAge(r.published_at)) ELSE 0)
    + (IF r.snippet > 100 THEN 10 * ScoreUnit ELSE 0)

RECURSIVE InsertDesc(_, _)
\* r goes after every element whose score is >= its own: a stable descending sort
InsertDesc(sorted, r) ==
    IF sorted = <<>> THEN <<r>>
    ELSE IF Head(sorted).score >= r.score
         THEN <<Head(sorted)>> \o InsertDesc(Tail(sorted), r)
         ELSE <<r>> \o sorted

RECURSIVE SortedDesc(_, _)
SortedDesc(rs, acc) ==
    IF rs = <<>> THEN acc ELSE SortedDesc(Tail(rs), InsertDesc(acc, Head(rs)))

rank_results(rs) ==
    LET scored == [i \in 1..Len(rs) |-> [rs[i] EXCEPT !.score = RankedScore(rs[i])]]
    IN  SortedDesc(scored, <<>>)

(***************************************************************************)
(* Source adapters of SearchAggregator                                     *)
(*                                                                         *)
(* A payload is what one HTTP request yields: kind "exc" (the request or   *)
(* the decoding of the body raises), kind "status" (a status other than    *)
(* 200) or kind "ok" with the raw records of the body.  A raw record has   *)
(* the fields the adapters read; tsk tells whether its timestamp is        *)
(* present and well-formed ("ok"), missing ("absent") or of a shape the    *)
(* conversion rejects ("bad").                                             *)
(***************************************************************************)
Adapters == <<"reddit", "hackernews", "arxiv">>

\* the default of search_reddit's subreddits parameter
subreddits == <<"artificial", "MachineLearning", "singularity", "LocalLLaMA">>

Raw(title, url, snippet, ts, tsk, score) ==
    [title |-> title, url |-> url, snippet |-> snippet, ts |-> ts, tsk |-> tsk,
     score |-> score, complete |-> TRUE]

SearchResult(title, url, snippet, source, published_at, score) ==
    [title |-> title, url |-> url, snippet |-> snippet, source |-> source,
     published_at |-> published_at, score |-> score]

\* does building the SearchResult of raw record h raise?
RecordRaises(h) == h.tsk = "bad"

\* search_reddit, lines 75-82: one post of subreddit s
RedditResult(h, s) ==
    SearchResult(h.title, h.url, Min(h.snippet, 300), <<"reddit/r", subreddits[s]>>,
                 FromTimestamp(IF h.tsk = "absent" THEN 0 ELSE h.ts),
                 h.score * ScoreUnit)

\* search_hackernews, lines 108-115: one hit
HackernewsResult(h) ==
    SearchResult(h.title, h.url, Min(h.snippet, 300), <<"hackernews">>,
                 FromTimestamp(IF h.tsk = "absent" THEN 0 ELSE h.ts),
                 h.score * ScoreUnit)

\* search_arxiv, lines 153-159: one entry that has a title and an id
ArxivResult(h) ==
    SearchResult(h.title, h.url, Min(h.snippet, 300), <<"arxiv">>,
                 IF h.tsk = "absent" THEN NoDate ELSE FromIsoformatUTC(h.ts),
                 0)

Normalize(a, s, h) ==
    CASE a = "reddit"     -> RedditResult(h, s)
      [] a = "hackernews" -> HackernewsResult(h)
      [] a = "arxiv"      -> ArxivResult(h)

RECURSIVE ParseLoop(_, _, _, _)
\* the for loop over the records of one body, inside the try block: the
\* results appended so far stay in `acc` when a record raises
ParseLoop(a, s, recs, acc) ==
    IF recs = <<>> THEN [items |-> acc, raised |-> FALSE]
    ELSE LET h == Head(recs)
         IN  IF a = "arxiv" /\ ~h.complete
             THEN ParseLoop(a, s, Tail(recs), acc)
             ELSE IF RecordRaises(h)
             THEN [items |-> acc, raised |-> TRUE]
             ELSE ParseLoop(a, s, Tail(recs), Append(acc, Normalize(a, s, h)))

\* the try/except around one request of adapter a: the adapter's `results`
\* after the request, given `acc` before it
HandleResponse(a, s, p, acc) ==
    CASE p.kind = "exc"    -> [items |-> acc, raised |-> TRUE]
      [] p.kind = "status" -> [items |-> acc, raised |-> FALSE]
      [] p.kind = "ok"     -> ParseLoop(a, s, p.recs, acc)

(***************************************************************************)
(* FactChecker: lexical matching                                           *)
(*                                                                         *)
(* A text is a sequence of words, joined by single blanks; a cue is a      *)
(* phrase, a sequence of words too.  `cue in text` of Python is substring  *)
(* containment of the joined strings: the tables below list which words    *)
(* of the vocabulary contain, end with or start with another word.         *)
(***************************************************************************)
\* str.lower() on one word
LowerWord(w) ==
    CASE w = "Confirmed" -> "confirmed"
      [] w = "NVIDIA"    -> "nvidia"
      [] OTHER           -> w

RECURSIVE LowerText(_)
LowerText(t) == IF t = <<>> THEN <<>> ELSE <<LowerWord(Head(t))>> \o LowerText(Tail(t))

\* <<c, w>>: word c occurs inside the longer word w
InsidePairs == {<<"true", "untrue">>, <<"yes", "eyes">>}
\* <<c, w>>: the longer word w ends with c / starts with c
SuffixPairs == {<<"true", "untrue">>, <<"yes", "eyes">>}
PrefixPairs == {}

InWord(c, w)     == c = w \/ <<c, w>> \in InsidePairs
EndsWith(w, c)   == c = w \/ <<c, w>> \in SuffixPairs
StartsWith(w, c) == c = w \/ <<c, w>> \in PrefixPairs

\* `phrase in text` for a lower-cased text
PhraseIn(ph, t) ==
    IF Len(ph) = 1
    THEN \E i \in 1..Len(t) : InWord(ph[1], t[i])
    ELSE \E i \in 1..(Len(t) - Len(ph) + 1) :
            /\ EndsWith(t[i], ph[1])
            /\ StartsWith(t[i + Len(ph) - 1], ph[Len(ph)])
            /\ \A j \in 2..(Len(ph) - 1) : t[i + j - 1] = ph[j]

\* any(word in text for word in words)
AnyIn(words, t) == \E k \in 1..Len(words) : PhraseIn(words[k], t)

SUSPICIOUS_WORDS ==
    << <<"viral">>, <<"shocking">>, <<"you", "won't", "believe">>,
       <<"doctors", "hate">>, <<"secret">> >>

\* analyze_sentiment, lines 144-145
confirm_words ==
    << <<"confirmed">>, <<"true">>, <<"yes">>, <<"indeed">>, <<"announced">>,
       <<"official">> >>
deny_words ==
    << <<"false">>, <<"fake">>, <<"rumor">>, <<"not", "true">>, <<"denied">>,
       <<"debunked">> >>

\* find_contradictions, lines 192 and 194
contradiction_confirm_words ==
    << <<"confirmed">>, <<"true">>, <<"announced">>, <<"official">> >>
contradiction_deny_words ==
    << <<"false">>, <<"fake">>, <<"denied">>, <<"debunked">> >>

(***************************************************************************)
(* Confidence values are exact fractions in lowest terms                   *)
(***************************************************************************)
RECURSIVE GCD(_, _)
GCD(a, b) == IF b = 0 THEN a ELSE GCD(b, a % b)

Frac(n, d) == LET g == GCD(n, d) IN [num |-> n \div g, den |-> d \div g]
FracLess(x, y) == x.num * y.den < y.num * x.den
FracMin(x, y)  == IF FracLess(y, x) THEN y ELSE x

\* f"{x:.0%}": the percentage rounded to an integer, halves to even
Percent(x) ==
    LET q == (100 * x.num) \div x.den
        r == (100 * x.num) % x.den
    IN  IF 2 * r > x.den \/ (2 * r = x.den /\ q % 2 = 1) THEN q + 1 ELSE q

(***************************************************************************)
(* analyze_sentiment                                                       *)
(***************************************************************************)
\* set(claim.lower().split())
claim_keywords(c) == {LowerWord(c[i]) : i \in 1..Len(c)}

\* any(kw in text_lower for kw in claim_keywords)
Mentions(t, c) == \E kw \in claim_keywords(c) : PhraseIn(<<kw>>, t)

RECURSIVE SignalLoop_Break(_, _, _)
\* the loop leaving at the first text that does not mention the claim (break
\* where the code goes on to the next text)
SignalLoop_Break(texts, c, acc) ==
    IF texts = <<>> THEN acc
    ELSE LET t == LowerText(Head(texts))
         IN  IF Mentions(t, c)
             THEN SignalLoop_Break(Tail(texts), c,
                    [confirm |-> acc.confirm + (IF AnyIn(confirm_words, t) THEN 2 ELSE 0),
                     deny    |-> acc.deny + (IF AnyIn(deny_words, t) THEN 2 ELSE 0)
                                          + (IF AnyIn(SUSPICIOUS_WORDS, t) THEN 1 ELSE 0),
                     total   |-> acc.total + 1])
             ELSE acc

RECURSIVE SignalLoop(_, _, _)
\* the loop of lines 147-164; acc = [confirm, deny, total]
SignalLoop(texts, c, acc) ==
    IF texts = <<>> THEN acc
    ELSE LET t == LowerText(Head(texts))
         IN  IF Mentions(t, c)
             THEN SignalLoop(Tail(texts), c,
                    [confirm |-> acc.confirm + (IF AnyIn(confirm_words, t) THEN 2 ELSE 0),
                     deny    |-> acc.deny + (IF AnyIn(deny_words, t) THEN 2 ELSE 0)
                                          + (IF AnyIn(SUSPICIOUS_WORDS, t) THEN 1 ELSE 0),
                     total   |-> acc.total + 1])
             ELSE SignalLoop(Tail(texts), c, acc)

Signals(texts, c) == SignalLoop(texts, c, [confirm |-> 0, deny |-> 0, total |-> 0])

\* analyze_sentiment without the early return of lines 166-167
analyze_sentiment_NoZeroGuard(texts, c) ==
    LET s == Signals(texts, c)
    IN  IF s.confirm > s.deny * 2
             THEN <<"true", FracMin(Frac(s.confirm, s.total), Frac(1, 1))>>
        ELSE IF s.deny > s.confirm * 2
             THEN <<"false", FracMin(Frac(s.deny, s.total), Frac(1, 1))>>
        ELSE IF s.confirm > 0 \/ s.deny > 0
             THEN <<"partially_true", Frac(1, 2)>>
        ELSE <<"unverified", Frac(3, 10)>>

\* analyze_sentiment comparing the signals without the factor 2
analyze_sentiment_NoDouble(texts, c) ==
    LET s == Signals(texts, c)
    IN  IF s.total = 0 THEN <<"unverified", Frac(0, 1)>>
        ELSE IF s.confirm > s.deny
             THEN <<"true", FracMin(Frac(s.confirm, s.total), Frac(1, 1))>>
        ELSE IF s.deny > s.confirm
             THEN <<"false", FracMin(Frac(s.deny, s.total), Frac(1, 1))>>
        ELSE IF s.confirm > 0 \/ s.deny > 0
             THEN <<"partially_true", Frac(1, 2)>>
        ELSE <<"unverified", Frac(3, 10)>>

\* analyze_sentiment without min(..., 1.0)
analyze_sentiment_NoCap(texts, c) ==
    LET s == Signals(texts, c)
    IN  IF s.total = 0 THEN <<"unverified", Frac(0, 1)>>
        ELSE IF s.confirm > s.deny * 2
             THEN <<"true", Frac(s.confirm, s.total)>>
        ELSE IF s.deny > s.confirm * 2
             THEN <<"false", Frac(s.deny, s.total)>>
        ELSE IF s.confirm > 0 \/ s.deny > 0
             THEN <<"partially_true", Frac(1, 2)>>
        ELSE <<"unverified", Frac(3, 10)>>

analyze_sentiment(texts, c) ==
    LET s == Signals(texts, c)
    IN  IF s.total = 0 THEN <<"unverified", Frac(0, 1)>>
        ELSE IF s.confirm > s.deny * 2
             THEN <<"true", FracMin(Frac(s.confirm, s.total), Frac(1, 1))>>
        ELSE IF s.deny > s.confirm * 2
             THEN <<"false", FracMin(Frac(s.deny, s.total), Frac(1, 1))>>
        ELSE IF s.confirm > 0 \/ s.deny > 0
             THEN <<"partially_true", Frac(1, 2)>>
        ELSE <<"unverified", Frac(3, 10)>>

(***************************************************************************)
(* find_contradictions                                                     *)
(***************************************************************************)
\* f"{source.get('title', '')} {source.get('text', '')}"
TitleText(src) == src.title \o src.text

IsConfirmSource(src) == AnyIn(contradiction_confirm_words, LowerText(TitleText(src)))
IsDenySource(src) ==
    /\ ~IsConfirmSource(src)
    /\ AnyIn(contradiction_deny_words, LowerText(TitleText(src)))

\* find_contradictions taking the last member of each group as its sample
find_contradictions_LastSample(srcs, c) ==
    LET confirm_sources == SelectSeq(srcs, IsConfirmSource)
        deny_sources    == SelectSeq(srcs, IsDenySource)
    IN  IF confirm_sources # <<>> /\ deny_sources # <<>>
        THEN << [type           |-> "conflicting_reports",
                 confirm_count  |-> Len(confirm_sources),
                 deny_count     |-> Len(deny_sources),
                 sample_confirm |-> confirm_sources[Len(confirm_sources)],
                 sample_deny    |-> deny_sources[Len(deny_sources)]] >>
        ELSE <<>>

find_contradictions(srcs, c) ==
    LET confirm_sources == SelectSeq(srcs, IsConfirmSource)
        deny_sources    == SelectSeq(srcs, IsDenySource)
    IN  IF confirm_sources # <<>> /\ deny_sources # <<>>
        THEN << [type           |-> "conflicting_reports",
                 confirm_count  |-> Len(confirm_sources),
                 deny_count     |-> Len(deny_sources),
                 sample_confirm |-> confirm_sources[1],
                 sample_deny    |-> deny_sources[1]] >>
        ELSE <<>>

(***************************************************************************)
(* generate_explanation and check                                          *)
(***************************************************************************)
\* the template chosen and the percentage it prints; `note` is the sentence
\* check() appends on a downgrade (<<>> when none)
generate_explanation(verdict, confidence, srcs, contradictions) ==
    [template |->
        CASE verdict = "true" ->
               IF FracLess(Frac(4, 5), confidence) THEN "true_high" ELSE "true_low"
          [] verdict = "false" ->
               IF FracLess(Frac(4, 5), confidence) THEN "false_high" ELSE "false_low"
          [] verdict = "partially_true" -> "partially_true"
          [] OTHER -> "unverified",
     percent |-> Percent(confidence),
     note    |-> <<>>]

\* check() setting the confidence to 0.0 when it downgrades the verdict
CheckResult_ResetConfidence(c, minc, srcs) ==
    LET texts          == [i \in 1..Len(srcs) |-> TitleText(srcs[i])]
        vc             == analyze_sentiment(texts, c)
        verdict        == vc[1]
        confidence     == vc[2]
        contradictions == find_contradictions(srcs, c)
        explanation    == generate_explanation(verdict, confidence, srcs, contradictions)
        downgrade      == FracLess(confidence, minc) /\ verdict \in {"true", "false"}
    IN  [claim          |-> c,
         verdict        |-> IF downgrade THEN "unverified" ELSE verdict,
         confidence     |-> IF downgrade THEN Frac(0, 1) ELSE confidence,
         sources        |-> PySlice(srcs, 5),
         contradictions |-> contradictions,
         explanation    |-> IF downgrade
                            THEN [explanation EXCEPT
                                    !.note = <<Percent(confidence), Percent(minc)>>]
                            ELSE explanation]

\* check() downgrading the verdict "true" only
CheckResult_DowngradeTrueOnly(c, minc, srcs) ==
    LET texts          == [i \in 1..Len(srcs) |-> TitleText(srcs[i])]
        vc             == analyze_sentiment(texts, c)
        verdict        == vc[1]
        confidence     == vc[2]
        contradictions == find_contradictions(srcs, c)
        explanation    == generate_explanation(verdict, confidence, srcs, contradictions)
        downgrade      == FracLess(confidence, minc) /\ verdict \in {"true"}
    IN  [claim          |-> c,
         verdict        |-> IF downgrade THEN "unverified" ELSE verdict,
         confidence     |-> confidence,
         sources        |-> PySlice(srcs, 5),
         contradictions |-> contradictions,
         explanation    |-> IF downgrade
                            THEN [explanation EXCEPT
                                    !.note = <<Percent(confidence), Percent(minc)>>]
                            ELSE explanation]

\* check(), lines 239-264, given the list search_for_claim returned
CheckResult(c, minc, srcs) ==
    LET texts          == [i \in 1..Len(srcs) |-> TitleText(srcs[i])]
        vc             == analyze_sentiment(texts, c)
        verdict        == vc[1]
        confidence     == vc[2]
        contradictions == find_contradictions(srcs, c)
        explanation    == generate_explanation(verdict, confidence, srcs, contradictions)
        downgrade      == FracLess(confidence, minc) /\ verdict \in {"true", "false"}
    IN  [claim          |-> c,
         verdict        |-> IF downgrade THEN "unverified" ELSE verdict,
         confidence     |-> confidence,
         sources        |-> PySlice(srcs, 5),
         contradictions |-> contradictions,
         explanation    |-> IF downgrade
                            THEN [explanation EXCEPT
                                    !.note = <<Percent(confidence), Percent(minc)>>]
                            ELSE explanation]

(***************************************************************************)
(* Source adapters of FactChecker                                          *)
(***************************************************************************)
FcRaw(title, text, url, ts, tsk, score) ==
    [title |-> title, text |-> text, url |-> url, ts |-> ts, tsk |-> tsk,
     score |-> score]

\* the dict appended by _search_reddit (lines 96-103) and _search_hackernews
\* (lines 123-130)
FcDict(a, h) ==
    [title |-> h.title, text |-> h.text, url |-> h.url, source |-> <<a>>,
     score |-> h.score,
     created |-> FromTimestamp(IF h.tsk = "absent" THEN 0 ELSE h.ts)]

RECURSIVE FcParseLoop(_, _, _)
FcParseLoop(a, recs, acc) ==
    IF recs = <<>> THEN [items |-> acc, raised |-> FALSE]
    ELSE IF RecordRaises(Head(recs))
         THEN [items |-> acc, raised |-> TRUE]
         ELSE FcParseLoop(a, Tail(recs), Append(acc, FcDict(a, Head(recs))))

\* the try/except of _search_reddit / _search_hackernews around its request
FcHandleResponse(a, p) ==
    CASE p.kind = "exc"    -> [items |-> <<>>, raised |-> TRUE]
      [] p.kind = "status" -> [items |-> <<>>, raised |-> FALSE]
      [] p.kind = "ok"     -> FcParseLoop(a, p.recs, <<>>)

(***************************************************************************)
(* The responses the sources may give                                      *)
(***************************************************************************)
Exc     == [kind |-> "exc", recs |-> <<>>]
Status  == [kind |-> "status", recs |-> <<>>]
Ok(rs)  == [kind |-> "ok", recs |-> rs]

R1   == Raw(<<"A", "I">>, "reddit.com/1", 50, NowTs - 1800, "ok", 5)
RBad == Raw(<<"b">>, "reddit.com/x", 0, 0, "bad", 1)
R1b  == Raw(<<"b", "1">>, "reddit.com/1b", 150, NowTs - 90000, "ok", 7)
R2   == Raw(<<"a", "i">>, "reddit.com/2", 150, NowTs - 7200, "ok", 3)
R3   == Raw(<<"b">>, "example.com/b", 0, 0, "absent", 40)
R4   == Raw(<<"a", "_", "i">>, "reddit.com/4", 10, NowTs - 700000, "ok", 100)
H1   == Raw(<<"B">>, "example.com/b", 120, NowTs - 3000, "ok", 40)
HBad == Raw(<<"i">>, "example.com/i", 0, 0, "bad", 11)
H2   == Raw(<<"a", "-", "i">>, "example.com/ai", 0, NowTs - 100000, "ok", 20)
X1   == Raw(<<"a", "i">>, "arxiv.org/abs/1", 400, NowTs - 1800, "ok", 0)
X2   == Raw(<<"b", "1">>, "arxiv.org/abs/2", 400, 0, "absent", 0)
XBad == Raw(<<"i", "1">>, "arxiv.org/abs/3", 400, 0, "bad", 0)
XInc == [Raw(<<>>, "arxiv.org/abs/4", 400, NowTs - 60, "ok", 0) EXCEPT !.complete = FALSE]

\* what request s of adapter a of SearchAggregator may yield
SaPayloads(a, s) ==
    CASE a = "reddit" /\ s = 1 -> {Exc, Ok(<<R1>>), Ok(<<R1, RBad, R1b>>)}
      [] a = "reddit" /\ s = 2 -> {Exc, Ok(<<R2>>)}
      [] a = "reddit" /\ s = 3 -> {Status, Ok(<<R3>>)}
      [] a = "reddit" /\ s = 4 -> {Exc, Ok(<<R4>>)}
      [] a = "hackernews" -> {Exc, Status, Ok(<<H1>>), Ok(<<H1, HBad, H2>>)}
      [] a = "arxiv" -> {Exc, Ok(<<X1, X2>>), Ok(<<X1, XBad, X2>>), Ok(<<XInc, X1>>)}

D1   == FcRaw(<<"NVIDIA", "groq">>, <<"Confirmed", "official">>, "reddit.com/d1",
              NowTs - 1800, "ok", 9)
DBad == FcRaw(<<"nvidia">>, <<>>, "reddit.com/dx", 0, "bad", 1)
D2   == FcRaw(<<"nvidia">>, <<"fake", "rumor">>, "reddit.com/d2", NowTs - 50, "ok", 2)
D3   == FcRaw(<<"groq">>, <<"not", "true">>, "example.com/d3", NowTs - 900, "ok", 30)
D4   == FcRaw(<<"the">>, <<"shocking", "eyes">>, "example.com/d4", NowTs - 10, "ok", 4)

\* what the request of adapter a of FactChecker may yield
FcPayloads(a) ==
    CASE a = "reddit"     -> {Exc, Status, Ok(<<>>), Ok(<<D1>>), Ok(<<D1, DBad, D2>>), Ok(<<D2, D1>>)}
      [] a = "hackernews" -> {Exc, Ok(<<>>), Ok(<<D3>>), Ok(<<D4, D1>>), Ok(<<D3, D4>>)}

SourceSets ==
    (SUBSET {"reddit", "hackernews", "arxiv"}) \cup {{"bing"}, {"hackernews", "bing"}}
Tops           == {-1, 0, 2, 10}
Offsets        == {0, 10800}
Claims         == {<<"NVIDIA", "bought", "groq">>, <<>>}
MinConfidences == {Frac(0, 1), Frac(7, 10), Frac(1, 1)}

(***************************************************************************)
(* SearchAggregator.search                                                 *)
(***************************************************************************)
\* the list `tasks` of lines 266-275, as the adapters it holds, in order
tasks == SelectSeq(Adapters, LAMBDA a : a \in sources)

\* all_results = result_list instead of all_results.extend(result_list)
MergeSlotsOverwrite(ts, slot) == IF ts = <<>> THEN <<>> ELSE slot[ts[Len(ts)]]

\* the lists taken in the order the coroutines returned (asyncio.as_completed)
MergeSlotsCompletion(ts, slot) == Concat([i \in 1..Len(doneOrder) |-> slot[doneOrder[i]]])

\* lines 280-282: the lists gather returned, extended in the order of `tasks`
MergeSlots(ts, slot) == Concat([i \in 1..Len(ts) |-> slot[ts[i]]])

\* the duplicates removed before the freshness filter
Stages_DedupFirst(merged, f, n) ==
    PySlice(rank_results(filter_by_freshness(remove_duplicates(merged), f)), n)

\* lines 285-289
Stages(merged, f, n) ==
    PySlice(rank_results(remove_duplicates(filter_by_freshness(merged, f))), n)

Returned(v) == [raised |-> FALSE, value |-> v]

\* search() up to its await: the coroutines are created and handed to gather,
\* and each runs up to its first request
Search ==
    /\ mode = "search" /\ pc = "call"
    /\ task' = [a \in Range(Adapters) |-> IF a \in sources THEN "waiting" ELSE "off"]
    /\ sub' = 1
    /\ pc' = "await"
    /\ UNCHANGED <<mode, sources, freshness, top, now, tz, results, received, log,
                   doneOrder, all_results, output, claim, min_confidence>>

\* the response to the request of subreddit `sub` arrives: search_reddit handles
\* it and issues the next request, or returns after the last subreddit
RedditRespond ==
    /\ mode = "search" /\ task["reddit"] = "waiting"
    /\ \E p \in SaPayloads("reddit", sub) :
         LET r == HandleResponse("reddit", sub, p, results["reddit"])
         IN  /\ results' = [results EXCEPT !["reddit"] = r.items]
             /\ received' = [received EXCEPT !["reddit"] = Append(@, p)]
             /\ log' = IF r.raised THEN log \cup {"reddit"} ELSE log
    /\ IF sub < Len(subreddits)
       THEN /\ sub' = sub + 1
            /\ UNCHANGED <<task, doneOrder>>
       ELSE /\ task' = [task EXCEPT !["reddit"] = "done"]
            /\ doneOrder' = Append(doneOrder, "reddit")
            /\ UNCHANGED sub
    /\ UNCHANGED <<mode, pc, sources, freshness, top, now, tz, all_results, output,
                   claim, min_confidence>>

\* the response to the one request of search_hackernews or search_arxiv arrives:
\* the adapter handles it and returns
Respond(a) ==
    /\ mode = "search" /\ task[a] = "waiting"
    /\ \E p \in SaPayloads(a, 1) :
         LET r == HandleResponse(a, 1, p, results[a])
         IN  /\ results' = [results EXCEPT ![a] = r.items]
             /\ received' = [received EXCEPT ![a] = Append(@, p)]
             /\ log' = IF r.raised THEN log \cup {a} ELSE log
    /\ task' = [task EXCEPT ![a] = "done"]
    /\ doneOrder' = Append(doneOrder, a)
    /\ UNCHANGED <<mode, pc, sources, freshness, top, now, tz, sub, all_results,
                   output, claim, min_confidence>>

\* the response to a pending request never arrives: nothing in search(), in
\* check() or in the adapters bounds the wait
Hang(a) ==
    /\ task[a] = "waiting"
    /\ task' = [task EXCEPT ![a] = "hung"]
    /\ UNCHANGED <<mode, pc, sources, freshness, top, now, tz, sub, results, received,
                   log, doneOrder, all_results, output, claim, min_confidence>>

\* gather resumes search() once every task has returned; lines 280-289 run
\* without suspension
Barrier ==
    /\ mode = "search" /\ pc = "await"
    /\ \A a \in Range(Adapters) : task[a] \in {"off", "done"}
    /\ LET merged == MergeSlots(tasks, results)
       IN  /\ all_results' = merged
           /\ output' = Returned(Stages(merged, freshness, top))
    /\ pc' = "done"
    /\ UNCHANGED <<mode, sources, freshness, top, now, tz, task, sub, results,
                   received, log, doneOrder, claim, min_confidence>>

(***************************************************************************)
(* FactChecker.check                                                       *)
(***************************************************************************)
\* check() calls search_for_claim, which calls _search_reddit and suspends on
\* its request; _search_hackernews has not been called yet ("idle")
Check ==
    /\ mode = "check" /\ pc = "call"
    /\ task' = [a \in Range(Adapters) |->
                  CASE a = "reddit" -> "waiting"
                    [] a = "hackernews" -> "idle"
                    [] OTHER -> "off"]
    /\ pc' = "await"
    /\ UNCHANGED <<mode, sources, freshness, top, now, tz, sub, results, received,
                   log, doneOrder, all_results, output, claim, min_confidence>>

\* _search_reddit returns; search_for_claim extends its list (line 66) and
\* calls _search_hackernews, which suspends on its request
FcRedditRespond ==
    /\ mode = "check" /\ task["reddit"] = "waiting"
    /\ \E p \in FcPayloads("reddit") :
         LET r == FcHandleResponse("reddit", p)
         IN  /\ results' = [results EXCEPT !["reddit"] = r.items]
             /\ received' = [received EXCEPT !["reddit"] = Append(@, p)]
             /\ log' = IF r.raised THEN log \cup {"reddit"} ELSE log
             /\ all_results' = all_results \o r.items
    /\ task' = [task EXCEPT !["reddit"] = "done", !["hackernews"] = "waiting"]
    /\ doneOrder' = Append(doneOrder, "reddit")
    /\ UNCHANGED <<mode, pc, sources, freshness, top, now, tz, sub, output, claim,
                   min_confidence>>

\* _search_hackernews returns; search_for_claim extends its list (line 73) and
\* returns it, and check() runs lines 236-264 without suspension
FcHackernewsRespond ==
    /\ mode = "check" /\ task["hackernews"] = "waiting"
    /\ \E p \in FcPayloads("hackernews") :
         LET r == FcHandleResponse("hackernews", p)
             found == all_results \o r.items
         IN  /\ results' = [results EXCEPT !["hackernews"] = r.items]
             /\ received' = [received EXCEPT !["hackernews"] = Append(@, p)]
             /\ log' = IF r.raised THEN log \cup {"hackernews"} ELSE log
             /\ all_results' = found
             /\ output' = Returned(CheckResult(claim, min_confidence, found))
    /\ task' = [task EXCEPT !["hackernews"] = "done"]
    /\ doneOrder' = Append(doneOrder, "hackernews")
    /\ pc' = "done"
    /\ UNCHANGED <<mode, sources, freshness, top, now, tz, sub, claim, min_confidence>>

(***************************************************************************)
(* The pipelines: one call of search() or of check()                       *)
(***************************************************************************)
NoTask == [a \in Range(Adapters) |-> "off"]
NoList == [a \in Range(Adapters) |-> <<>>]

Init ==
    /\ mode \in {"search", "check"}
    /\ pc = "call"
    /\ now = NowTs
    /\ tz \in Offsets
    /\ \/ /\ mode = "search"
          /\ sources \in SourceSets
          /\ freshness \in Range(Horizons)
          /\ top \in Tops
          /\ claim = <<>>
          /\ min_confidence = Frac(0, 1)
       \/ /\ mode = "check"
          /\ sources = {}
          /\ freshness = "week"
          /\ top = 10
          /\ claim \in Claims
          /\ min_confidence \in MinConfidences
    /\ task = NoTask
    /\ sub = 0
    /\ results = NoList
    /\ received = NoList
    /\ log = {}
    /\ doneOrder = <<>>
    /\ all_results = <<>>
    /\ output = Returned(<<>>)

Next ==
    \/ Search
    \/ RedditRespond
    \/ \E a \in {"hackernews", "arxiv"} : Respond(a)
    \/ \E a \in Range(Adapters) : Hang(a)
    \/ Barrier
    \/ Check
    \/ FcRedditRespond
    \/ FcHackernewsRespond

Spec == Init /\ [][Next]_vars

\* the event loop runs every callback that is ready
FairSpec == Spec /\ WF_vars(Next)

(***************************************************************************)
(* filter_by_freshness and remove_duplicates called on their own           *)
(***************************************************************************)
BoundedSeq(S, n) == UNION {[1..k -> S] : k \in 0..n}

\* offsets of the machines the filter runs on: UTC-5, UTC, UTC+3
FilterOffsets == {-18000, 0, 10800}

\* the published_at values the adapters can produce: none (arXiv entry without
\* <published>), naive local (Reddit, HackerNews), aware UTC (arXiv)
PubChoices ==
    {NoDate}
    \cup {FromTimestamp(NowTs - g) : g \in {3600, 3601, 700000}}
    \cup {FromIsoformatUTC(NowTs - g) : g \in {1800, 86000}}

FilterItems == {SearchResult(<<"a">>, "example.com/a", 0, <<"arxiv">>, d, 0) : d \in PubChoices}

DedupUrls   == {"example.com/1", "example.com/2", "example.com/3"}
DedupTitles == {<<"A", "I">>, <<"a", "i">>, <<"a", "_", "i">>, <<"a", "-", "i">>, <<"b">>}
DedupItems  ==
    {SearchResult(t, u, 0, <<"hackernews">>, NoDate, 0) : t \in DedupTitles, u \in DedupUrls}

InitPure(m) ==
    /\ mode = m
    /\ pc = "call"
    /\ now = NowTs
    /\ sources = {}
    /\ top = 10
    /\ claim = <<>>
    /\ min_confidence = Frac(0, 1)
    /\ task = NoTask
    /\ sub = 0
    /\ results = NoList
    /\ received = NoList
    /\ log = {}
    /\ doneOrder = <<>>
    /\ output = Returned(<<>>)

InitFilter ==
    /\ InitPure("filter")
    /\ tz \in FilterOffsets
    /\ freshness \in Range(Horizons)
    /\ all_results \in BoundedSeq(FilterItems, MaxLen)

FilterCall ==
    /\ mode = "filter" /\ pc = "call"
    /\ output' = Returned(filter_by_freshness(all_results, freshness))
    /\ pc' = "done"
    /\ UNCHANGED <<mode, sources, freshness, top, now, tz, task, sub, results,
                   received, log, doneOrder, all_results, claim, min_confidence>>

NextFilter == FilterCall

FilterSpec == InitFilter /\ [][NextFilter]_vars

InitDedup ==
    /\ InitPure("dedup")
    /\ tz = 0
    /\ freshness = "week"
    /\ all_results \in BoundedSeq(DedupItems, MaxLen)

DedupCall ==
    /\ mode = "dedup" /\ pc = "call"
    /\ output' = Returned(remove_duplicates(all_results))
    /\ pc' = "done"
    /\ UNCHANGED <<mode, sources, freshness, top, now, tz, task, sub, results,
                   received, log, doneOrder, all_results, claim, min_confidence>>

NextDedup == DedupCall

DedupSpec == InitDedup /\ [][NextDedup]_vars

(***************************************************************************)
(* rank_results called on its own, and called again on the list it         *)
(* returned.  The SearchResult objects are shared between the caller's     *)
(* list and the returned list, and rank_results assigns result.score in    *)
(* place, so both lists show the new scores after each call.               *)
(***************************************************************************)
\* source score, publication date and snippet length of one item
RankAttrs ==
    [score : {0, 60 * ScoreUnit},
     published_at : {NoDate, FromTimestamp(NowTs - 500000), FromTimestamp(NowTs + 3600)},
     snippet : {0, 100, 150}]

\* the items of a list have pairwise different urls and titles; the list is
\* presented in ascending or in descending order of url
RankItem(i, x) ==
    SearchResult(<<"t", i>>, <<"example.com", i>>, x.snippet, <<"hackernews">>,
                 x.published_at, x.score)

\* `for result in results: ... result.score = ...`: the list after the loop
ScoredInPlace(rs) == [i \in 1..Len(rs) |-> [rs[i] EXCEPT !.score = RankedScore(rs[i])]]

\* the objects of list rs as they are after the loop has run over list ranked
\* (the same objects, found by url)
SameObjects(rs, ranked) ==
    [i \in 1..Len(rs) |->
        LET j == CHOOSE k \in 1..Len(ranked) : ranked[k].url = rs[i].url
        IN  ScoredInPlace(ranked)[j]]

InitRank ==
    /\ InitPure("rank")
    /\ tz = 0
    /\ freshness = "week"
    /\ \E xs \in BoundedSeq(RankAttrs, MaxLen), rev \in BOOLEAN :
          all_results = [i \in 1..Len(xs) |->
                            RankItem(IF rev THEN Len(xs) + 1 - i ELSE i, xs[i])]

\* ranked = rank_results(results)
RankCall ==
    /\ mode = "rank" /\ pc = "call"
    /\ all_results' = ScoredInPlace(all_results)
    /\ output' = Returned(rank_results(all_results))
    /\ pc' = "done"
    /\ UNCHANGED <<mode, sources, freshness, top, now, tz, task, sub, results,
                   received, log, doneOrder, claim, min_confidence>>

\* rank_results(ranked): the same current time, the items it already ranked
RankAgain ==
    /\ mode = "rank" /\ pc = "done"
    /\ all_results' = SameObjects(all_results, output.value)
    /\ output' = Returned(rank_results(output.value))
    /\ pc' = "again"
    /\ UNCHANGED <<mode, sources, freshness, top, now, tz, task, sub, results,
                   received, log, doneOrder, claim, min_confidence>>

NextRank == RankCall \/ RankAgain

RankSpec == InitRank /\ [][NextRank]_vars

(***************************************************************************)
(* analyze_sentiment called on its own, and check() from the point where   *)
(* search_for_claim has returned its list: the evidence is any list of     *)
(* dicts the two adapters can build.                                       *)
(***************************************************************************)
\* longest evidence list over the full vocabulary
MaxEvidence == 3
\* length of the evidence lists that exceed the five sources check() returns
LongLen == 6

EvidenceClaim == <<"NVIDIA", "bought", "groq">>

\* a dict as _search_reddit appends it
Evidence(title, text, url, score) ==
    FcDict("reddit", FcRaw(title, text, url, NowTs - 60, "ok", score))

\* the text of a post: each cue class of analyze_sentiment and of
\* find_contradictions, alone and combined, and no cue at all
EvidenceTexts ==
    {<<"Confirmed">>, <<"yes">>, <<"fake">>, <<"rumor">>, <<"shocking">>, <<>>,
     <<"Confirmed", "fake">>, <<"Confirmed", "official">>}

EvidenceItems ==
    {Evidence(<<"nvidia">>, x, "reddit.com/e", 1) : x \in EvidenceTexts}
    \cup {Evidence(<<"the">>, <<"Confirmed">>, "reddit.com/e", 1)}
    \cup {Evidence(<<"nvidia">>, <<"Confirmed">>, "reddit.com/f", 9)}

\* more than five posts that mention the claim, with points 1 or 9
LongEvidence ==
    {[i \in 1..LongLen |-> Evidence(<<"nvidia">>, <<>>, <<"reddit.com", i>>, pts[i])] :
        pts \in [1..LongLen -> {1, 9}]}

InitVerdict ==
    /\ pc = "call"
    /\ now = NowTs
    /\ tz = 0
    /\ freshness = "week"
    /\ sources = {}
    /\ top = 10
    /\ task = NoTask
    /\ sub = 0
    /\ results = NoList
    /\ received = NoList
    /\ log = {}
    /\ doneOrder = <<>>
    /\ output = Returned(<<>>)
    /\ \/ /\ mode = "analyze"
          /\ claim \in Claims
          /\ min_confidence = Frac(0, 1)
          /\ all_results \in BoundedSeq(EvidenceItems, MaxEvidence)
       \/ /\ mode = "verdict"
          /\ claim = EvidenceClaim
          /\ min_confidence \in {Frac(7, 10), Frac(1, 1)}
          /\ all_results \in BoundedSeq(EvidenceItems, MaxEvidence)
       \/ /\ mode = "verdict"
          /\ claim = EvidenceClaim
          /\ min_confidence = Frac(7, 10)
          /\ all_results \in LongEvidence

\* analyze_sentiment(texts, claim) on the texts check() builds (line 240)
AnalyzeCall ==
    /\ mode = "analyze" /\ pc = "call"
    /\ output' = Returned(analyze_sentiment(
                    [i \in 1..Len(all_results) |-> TitleText(all_results[i])], claim))
    /\ pc' = "done"
    /\ UNCHANGED <<mode, sources, freshness, top, now, tz, task, sub, results,
                   received, log, doneOrder, all_results, claim, min_confidence>>

\* check() after `sources = await self.search_for_claim(claim)`
VerdictCall ==
    /\ mode = "verdict" /\ pc = "call"
    /\ output' = Returned(CheckResult(claim, min_confidence, all_results))
    /\ pc' = "done"
    /\ UNCHANGED <<mode, sources, freshness, top, now, tz, task, sub, results,
                   received, log, doneOrder, all_results, claim, min_confidence>>

NextVerdict == AnalyzeCall \/ VerdictCall

VerdictSpec == InitVerdict /\ [][NextVerdict]_vars

(***************************************************************************)
(* Properties                                                              *)
(***************************************************************************)
\* the adapter an item of the merged list came from
AdapterOf(x) == IF x.source[1] = "reddit/r" THEN "reddit" ELSE x.source[1]

\* the items adapter a builds from record j of the k-th payload it received
ItemOf(a, k, j) ==
    IF mode = "check" THEN FcDict(a, received[a][k].recs[j])
                      ELSE Normalize(a, k, received[a][k].recs[j])

\* record j of the k-th payload of a is one the adapter builds an item from
Builds(a, k, j) ==
    mode = "check" \/ a # "arxiv" \/ received[a][k].recs[j].complete

\* C1: whatever adapters fail, the pipeline returns normally and the merged
\* list holds every item of every adapter that did not fail.
C1_FailuresIsolated ==
    pc = "done" =>
        /\ ~output.raised
        /\ \A a \in Range(Adapters) :
             (task[a] = "done" /\ a \notin log) =>
                \A k \in 1..Len(received[a]) :
                   \A j \in 1..Len(received[a][k].recs) :
                      Builds(a, k, j) => ItemOf(a, k, j) \in Range(all_results)

\* search() returned although two adapters failed, with the items of the third
C1_Witness ==
    /\ mode = "search" /\ pc = "done"
    /\ Cardinality(log) = 2
    /\ \E a \in Range(Adapters) : task[a] = "done" /\ a \notin log /\ results[a] # <<>>

C3_StartedTogether ==
    /\ \A a, b \in Range(Adapters) :
         task[a] \in {"waiting", "hung", "done"} => task[b] # "idle"
    /\ pc = "done" => \A a \in Range(Adapters) : task[a] \in {"off", "done"}

RECURSIVE Replay(_, _, _, _)
\* the list adapter a of search() holds after the payloads ps, the first of
\* them answering request s
Replay(a, ps, s, acc) ==
    IF ps = <<>> THEN acc
    ELSE Replay(a, Tail(ps), s + 1, HandleResponse(a, s, Head(ps), acc).items)

\* the merge in the fixed order reddit, hackernews, arxiv of what the
\* responses determine
FixedOrderMerge ==
    Replay("reddit", received["reddit"], 1, <<>>)
    \o Replay("hackernews", received["hackernews"], 1, <<>>)
    \o Replay("arxiv", received["arxiv"], 1, <<>>)

\* C4: each adapter's list depends on its own responses only, and the merged
\* list and the output of search() are those of the fixed order, whatever the
\* order in which the adapters returned.
C4_MergeOrderFixed ==
    mode = "search" =>
        /\ \A a \in Range(Adapters) : results[a] = Replay(a, received[a], 1, <<>>)
        /\ pc = "done" =>
             /\ all_results = FixedOrderMerge
             /\ output = Returned(Stages(FixedOrderMerge, freshness, top))

\* the adapters returned in the order arxiv, hackernews, reddit, each with items
C4_Witness ==
    /\ mode = "search" /\ pc = "done"
    /\ doneOrder = <<"arxiv", "hackernews", "reddit">>
    /\ \A a \in Range(Adapters) : results[a] # <<>>

\* C5: no item of an adapter that failed is in the merged list handed to the
\* later stages.
C5_FailedAdapterContributesNothing ==
    pc = "done" =>
        \A i \in 1..Len(all_results) : AdapterOf(all_results[i]) \notin log

\* C6: on invalid input search() starts no adapter and reports an error.
C6_InvalidInputRejected ==
    (mode = "search" /\ (top <= 0 \/ ~(sources \subseteq Range(Adapters)))) =>
        /\ \A a \in Range(Adapters) : task[a] \in {"off", "idle"}
        /\ pc = "done" => output.raised

\* C7: with no evidence left, search() returns the empty sequence and check()
\* returns 'unverified' with confidence 0, whatever the threshold; neither raises.
C7_NoEvidence ==
    pc = "done" =>
        /\ (mode = "search" /\ filter_by_freshness(all_results, freshness) = <<>>)
              => output = Returned(<<>>)
        /\ (mode = "check" /\ all_results = <<>>)
              => /\ ~output.raised
                 /\ output.value.verdict = "unverified"
                 /\ output.value.confidence = Frac(0, 1)

\* check() returned with no evidence, both adapters having failed, under the
\* default threshold
C7_Witness ==
    /\ mode = "check" /\ pc = "done"
    /\ all_results = <<>>
    /\ log = {"reddit", "hackernews"}
    /\ claim # <<>>
    /\ min_confidence = Frac(7, 10)

\* the item's age at the instant `now`
TrueAge(r) == now - Instant(r.published_at)

\* C8: the filter returns, in input order, exactly the items that have a
\* publishedAt no older than the horizon.
C8_FilterExact ==
    (mode = "filter" /\ pc = "done") =>
        output = Returned(SelectSeq(all_results,
                    LAMBDA r : r.published_at.has /\ TrueAge(r) <= freshness_map(freshness)))

HorizonIndex(f) == CHOOSE k \in 1..Len(Horizons) : Horizons[k] = f

\* C9: what the filter keeps under a horizon it keeps under every longer one.
C9_FreshnessMonotone ==
    (mode = "filter" /\ pc = "done") =>
        \A k \in 1..Len(Horizons) :
           HorizonIndex(freshness) < k =>
              Range(output.value) \subseteq Range(filter_by_freshness(all_results, Horizons[k]))

\* the filter kept something under "day" and keeps more under "month"
C9_Witness ==
    /\ mode = "filter" /\ pc = "done"
    /\ freshness = "day"
    /\ output.value # <<>>
    /\ Len(filter_by_freshness(all_results, "month")) > Len(output.value)

\* the normalization of section 4.4: lower-cased, every non-alphanumeric
\* character removed
AlnumTitle(t) == SelectSeq(LowerStr(t), LAMBDA c : c \in Letters \cup Digits)

\* C10: the output of remove_duplicates holds no two items with the same url
\* and no two items with the same normalized title.
C10_NoDuplicatesRemain ==
    (mode = "dedup" /\ pc = "done") =>
        \A i, j \in 1..Len(output.value) :
           i < j => /\ output.value[i].url # output.value[j].url
                    /\ AlnumTitle(output.value[i].title) # AlnumTitle(output.value[j].title)

\* two items are duplicates of each other: same url or same normalized title
Duplicates(x, y) ==
    x.url = y.url \/ normalized_title(x.title) = normalized_title(y.title)

\* the items of rs that duplicate no earlier item of rs, in order
NoEarlierDuplicate(rs) ==
    LET First(j) == \A i \in 1..(j - 1) : ~Duplicates(rs[i], rs[j])
        RECURSIVE Pick(_)
        Pick(j) == IF j > Len(rs) THEN <<>>
                   ELSE (IF First(j) THEN <<rs[j]>> ELSE <<>>) \o Pick(j + 1)
    IN  Pick(1)

RECURSIVE IsSubseq(_, _)
\* s can be obtained from t by deleting elements
IsSubseq(s, t) ==
    IF s = <<>> THEN TRUE
    ELSE IF t = <<>> THEN FALSE
    ELSE IF Head(s) = Head(t) THEN IsSubseq(Tail(s), Tail(t))
    ELSE IsSubseq(s, Tail(t))

\* C11: of two input items that are duplicates of each other the later one is
\* dropped, so the output keeps, in input order, only items that duplicate no
\* earlier input item; the first input item is retained; no error is raised.
C11_FirstSeenWins ==
    (mode = "dedup" /\ pc = "done") =>
        /\ ~output.raised
        /\ IsSubseq(output.value, all_results)
        /\ IsSubseq(output.value, NoEarlierDuplicate(all_results))
        /\ all_results # <<>> =>
              (output.value # <<>> /\ output.value[1] = all_results[1])

\* C12: remove_duplicates applied to its own output changes nothing.
C12_DedupIdempotent ==
    (mode = "dedup" /\ pc = "done") =>
        remove_duplicates(output.value) = output.value

\* remove_duplicates dropped an item and kept two
C12_Witness ==
    /\ mode = "dedup" /\ pc = "done"
    /\ Len(output.value) = 2
    /\ Len(all_results) = 3


(***************************************************************************)
(* rank_results run again                                                  *)
(***************************************************************************)
Urls(rs) == [i \in 1..Len(rs) |-> rs[i].url]

\* C13: for a fixed set of items and a fixed current time, running
\* rank_results again on the items it already ranked yields the same ordering
\* as the run before.
C13_RerunSameOrder ==
    [][(mode = "rank" /\ pc = "done") => Urls(output'.value) = Urls(output.value)]_vars


(***************************************************************************)
(* Truncation to the requested number of results                           *)
(***************************************************************************)
\* the fresh, de-duplicated items of the merged list, ranked
RankedOfMerged == rank_results(remove_duplicates(filter_by_freshness(all_results, freshness)))

\* C14: for a positive `top` n, search() returns exactly the first min(n, m)
\* items of the ranked sequence of the m fresh, de-duplicated items: never more
\* than n items, and no ranked item that precedes a returned one is left out.
C14_TruncatedToTop ==
    (mode = "search" /\ pc = "done" /\ top > 0) =>
        /\ ~output.raised
        /\ Len(output.value) = Min(top, Len(RankedOfMerged))
        /\ Len(output.value) <= top
        /\ \A i \in 1..Len(output.value) : output.value[i] = RankedOfMerged[i]

\* a call whose ranked sequence is longer than the requested number
C14_Witness ==
    /\ mode = "search" /\ pc = "done" /\ top = 2
    /\ Len(RankedOfMerged) > 2
    /\ Len(output.value) = 2


(***************************************************************************)
(* The verdict table                                                       *)
(***************************************************************************)
EvidenceText(i) == LowerText(TitleText(all_results[i]))

\* the evidence items that overlap the claim
Counted == {i \in 1..Len(all_results) : Mentions(EvidenceText(i), claim)}
countedItems == Cardinality(Counted)
confirmSignal == 2 * Cardinality({i \in Counted : AnyIn(confirm_words, EvidenceText(i))})
denySignal ==
    2 * Cardinality({i \in Counted : AnyIn(deny_words, EvidenceText(i))})
    + Cardinality({i \in Counted : AnyIn(SUSPICIOUS_WORDS, EvidenceText(i))})

\* min(signal / countedItems, 1.0)
Capped(signal) == IF signal >= countedItems THEN Frac(1, 1) ELSE Frac(signal, countedItems)

VerdictTable ==
    IF countedItems = 0 THEN <<"unverified", Frac(0, 1)>>
    ELSE IF confirmSignal > 2 * denySignal THEN <<"true", Capped(confirmSignal)>>
    ELSE IF denySignal > 2 * confirmSignal THEN <<"false", Capped(denySignal)>>
    ELSE IF confirmSignal > 0 \/ denySignal > 0 THEN <<"partially_true", Frac(1, 2)>>
    ELSE <<"unverified", Frac(3, 10)>>

\* every item matches a confirming cue and no denying or suspicious cue, and
\* at least one of them overlaps the claim
AllConfirming ==
    /\ countedItems > 0
    /\ \A i \in 1..Len(all_results) :
          /\ AnyIn(confirm_words, EvidenceText(i))
          /\ ~AnyIn(deny_words, EvidenceText(i))
          /\ ~AnyIn(SUSPICIOUS_WORDS, EvidenceText(i))

\* C15: analyze_sentiment returns the verdict and confidence of the verdict
\* table over countedItems, confirmSignal and denySignal; in particular items
\* that all match confirming cues and no denying or suspicious cue give
\* ("true", 1.0).
C15_VerdictTable ==
    (mode = "analyze" /\ pc = "done") =>
        /\ ~output.raised
        /\ output.value = VerdictTable
        /\ AllConfirming => output.value = <<"true", Frac(1, 1)>>

\* three overlapping items, one confirming and two without any cue: the
\* "true" row with a confidence below the cap
C15_Witness ==
    /\ mode = "analyze" /\ pc = "done"
    /\ countedItems = 3 /\ confirmSignal = 2 /\ denySignal = 0
    /\ output.value = <<"true", Frac(2, 3)>>


(***************************************************************************)
(* The result of check()                                                   *)
(***************************************************************************)
\* 0.0 <= x <= 1.0
InUnitInterval(x) == x.den > 0 /\ 0 <= x.num /\ x.num <= x.den

\* C16: for every claim, every evidence list and every min_confidence, the
\* confidence of the result check() returns lies in [0.0, 1.0].
C16_ConfidenceBounded ==
    (mode = "verdict" /\ pc = "done") =>
        /\ ~output.raised
        /\ InUnitInterval(output.value.confidence)

\* a result whose signal exceeds the number of counted items: the cap acts
C16_Witness ==
    /\ mode = "verdict" /\ pc = "done"
    /\ countedItems > 0 /\ confirmSignal > countedItems
    /\ output.value.verdict = "true"
    /\ output.value.confidence = Frac(1, 1)

\* the verdict and confidence analyze_sentiment computed for the evidence
Computed ==
    analyze_sentiment([i \in 1..Len(all_results) |-> TitleText(all_results[i])], claim)

BelowThreshold == FracLess(Computed[2], min_confidence)

\* C17: a computed verdict "true" or "false" whose confidence is below
\* min_confidence is returned as "unverified" with the computed confidence
\* unchanged, an explanation that reports the computed percentage and a
\* threshold note; "partially_true" and "unverified" are never changed.
C17_ThresholdDowngrade ==
    (mode = "verdict" /\ pc = "done") =>
        LET r == output.value
        IN  /\ r.confidence = Computed[2]
            /\ r.explanation.percent = Percent(Computed[2])
            /\ (Computed[1] \in {"true", "false"} /\ BelowThreshold) =>
                  /\ r.verdict = "unverified"
                  /\ r.explanation.template \in
                        {"true_high", "true_low", "false_high", "false_low"}
                  /\ r.explanation.note = <<Percent(Computed[2]), Percent(min_confidence)>>
            /\ (Computed[1] \in {"true", "false"} /\ ~BelowThreshold) =>
                  (r.verdict = Computed[1] /\ r.explanation.note = <<>>)
            /\ Computed[1] \in {"partially_true", "unverified"} =>
                  (r.verdict = Computed[1] /\ r.explanation.note = <<>>)

\* verdict "true" computed with confidence 2/3, threshold 0.7
C17_Witness ==
    /\ mode = "verdict" /\ pc = "done"
    /\ Computed = <<"true", Frac(2, 3)>>
    /\ min_confidence = Frac(7, 10)
    /\ output.value.verdict = "unverified"
    /\ output.value.confidence = Frac(2, 3)
    /\ output.value.explanation.percent = 67

\* the collected items check() does not list
LeftOut == {i \in 1..Len(all_results) : all_results[i] \notin Range(output.value.sources)}

\* C18: check() returns at most 5 evidence items, and no collected item that
\* is left out has a higher score than an item that is listed.
C18_StrongestFive ==
    (mode = "verdict" /\ pc = "done") =>
        /\ Len(output.value.sources) <= 5
        /\ \A i \in LeftOut : \A j \in 1..Len(output.value.sources) :
              all_results[i].score <= output.value.sources[j].score

\* the items that match only confirming cues, and only denying cues, among
\* the cues of analyze_sentiment
OnlyConfirming ==
    {i \in 1..Len(all_results) :
        /\ AnyIn(confirm_words, EvidenceText(i))
        /\ ~AnyIn(deny_words, EvidenceText(i))
        /\ ~AnyIn(SUSPICIOUS_WORDS, EvidenceText(i))}
OnlyDenying ==
    {i \in 1..Len(all_results) :
        /\ ~AnyIn(confirm_words, EvidenceText(i))
        /\ AnyIn(deny_words, EvidenceText(i))}

\* C19: when the evidence consists of k >= 1 items matching only confirming
\* cues and k items matching only denying cues, all overlapping the claim,
\* check() produces exactly one contradiction record with confirm_count = k
\* and deny_count = k, and the verdict is "partially_true".
C19_ContradictionRecord ==
    (/\ mode = "verdict" /\ pc = "done"
     /\ Cardinality(OnlyConfirming) >= 1
     /\ Cardinality(OnlyConfirming) = Cardinality(OnlyDenying)
     /\ OnlyConfirming \cup OnlyDenying = 1..Len(all_results)
     /\ Counted = 1..Len(all_results)) =>
        /\ output.value.verdict = "partially_true"
        /\ Len(output.value.contradictions) = 1
        /\ output.value.contradictions[1].confirm_count = Cardinality(OnlyConfirming)
        /\ output.value.contradictions[1].deny_count = Cardinality(OnlyDenying)


(***************************************************************************)
(* Records whose timestamp cannot be parsed                                *)
(***************************************************************************)
\* C20: a timestamp that cannot be parsed yields an item with absent
\* published_at: every record of a decoded body is still turned into an item,
\* the one with the bad timestamp without a date, and the adapter reports no
\* error.
C20_BadTimestampAbsent ==
    \A a \in {"hackernews", "arxiv"} :
        (/\ mode = "search" /\ task[a] = "done"
         /\ Len(received[a]) = 1 /\ received[a][1].kind = "ok") =>
            /\ a \notin log
            /\ \A j \in 1..Len(received[a][1].recs) :
                  Builds(a, 1, j) =>
                     \E i \in 1..Len(results[a]) :
                        /\ results[a][i].url = received[a][1].recs[j].url
                        /\ received[a][1].recs[j].tsk = "bad" =>
                              ~results[a][i].published_at.has


(***************************************************************************)
(* The score rank_results assigns                                          *)
(***************************************************************************)
\* 10 exactly when the snippet is longer than 100 characters
qualityBonus(r) == IF r.snippet > 100 THEN 10 * ScoreUnit ELSE 0

\* 0 without a publication date, else what is left of the horizon of
\* 1000000 seconds at the item's age
freshnessBonus(r) ==
    IF ~r.published_at.has THEN 0
    ELSE LET age == DatetimeNow - r.published_at.wall
         IN  IF age >= 1000000 THEN 0 ELSE 1000000 - age

\* s and t hold the same elements the same number of times
IsPermutation(s, t) ==
    /\ Len(s) = Len(t)
    /\ \A x \in Range(s) \cup Range(t) :
          Cardinality({i \in 1..Len(s) : s[i] = x}) = Cardinality({i \in 1..Len(t) : t[i] = x})

\* C21: after rank_results every item's score is the score it carried before
\* plus freshnessBonus plus qualityBonus, where qualityBonus is 10 exactly when
\* len(snippet) > 100 and freshnessBonus is 0 when published_at is absent.
C21_ScoreIsSum ==
    [][(mode = "rank" /\ pc \in {"call", "done"}) =>
          /\ Len(all_results') = Len(all_results)
          /\ \A i \in 1..Len(all_results) :
                /\ all_results'[i].url = all_results[i].url
                /\ all_results'[i].score =
                      all_results[i].score + freshnessBonus(all_results[i])
                                           + qualityBonus(all_results[i])
          /\ IsPermutation(output'.value, all_results')]_vars

\* ranked once: a dated item with a long snippet and an item with a snippet of
\* exactly 100 characters and no date
C21_Witness ==
    /\ mode = "rank" /\ pc = "done"
    /\ \E i, j \in 1..Len(output.value) :
          /\ output.value[i].snippet = 150
          /\ output.value[i].published_at = FromTimestamp(NowTs - 500000)
          /\ output.value[i].score = 120 * ScoreUnit
          /\ output.value[j].snippet = 100 /\ ~output.value[j].published_at.has
          /\ output.value[j].score = 60 * ScoreUnit


(***************************************************************************)
(* The order rank_results returns                                          *)
(***************************************************************************)
\* x may stand before y: higher score; at equal score the more recent
\* publication; at equal score and equal publication the smaller url
MayPrecede(x, y) ==
    \/ x.score > y.score
    \/ /\ x.score = y.score
       /\ \/ x.published_at.has # y.published_at.has
          \/ /\ x.published_at.has /\ y.published_at.has
             /\ Instant(x.published_at) > Instant(y.published_at)
          \/ /\ x.published_at = y.published_at
             /\ x.url[2] <= y.url[2]

\* C22: the output of rank_results is sorted by descending score, items with
\* equal score by more recent published_at first, and items equal in both by
\* url, so the order does not depend on the order of presentation.
C22_TieBreak ==
    (mode = "rank" /\ pc = "done") =>
        \A i, j \in 1..Len(output.value) :
            i < j => MayPrecede(output.value[i], output.value[j])


(***************************************************************************)
(* The freshness bonus                                                     *)
(***************************************************************************)
\* the bonus of an item of age 0
MaxFreshnessBonus == 100 * ScoreUnit

\* r passes filter_by_freshness under some horizon, so it can reach rank_results
PassesFilter(r) == \E k \in 1..Len(Horizons) : filter_by_freshness(<<r>>, Horizons[k]) # <<>>

\* what one call of rank_results added to item i for its freshness
BonusGiven(i) == all_results'[i].score - all_results[i].score - qualityBonus(all_results[i])

\* C23: for every item that can reach rank_results, also one published after
\* the current time, the freshness bonus lies between 0 and the bonus of an
\* item of age 0, and an older item never gets a larger bonus than a newer one.
C23_FreshnessBonusBounded ==
    [][(mode = "rank" /\ pc = "call") =>
          \A i \in 1..Len(all_results) :
             PassesFilter(all_results[i]) =>
                /\ 0 <= BonusGiven(i)
                /\ BonusGiven(i) <= MaxFreshnessBonus
                /\ \A j \in 1..Len(all_results) :
                      (/\ PassesFilter(all_results[j])
                       /\ TrueAge(all_results[i]) <= TrueAge(all_results[j])) =>
                          BonusGiven(i) >= BonusGiven(j)]_vars


(***************************************************************************)
(* Signal counting                                                         *)
(***************************************************************************)
\* how many cues of a list the text matches
CuesMatched(words, t) == Cardinality({k \in 1..Len(words) : PhraseIn(words[k], t)})

RECURSIVE SumOver(_, _, _)
\* the sum of weight * CuesMatched over the counted items from position i on
SumOver(words, weight, i) ==
    IF i > Len(all_results) THEN 0
    ELSE (IF i \in Counted THEN weight * CuesMatched(words, EvidenceText(i)) ELSE 0)
         + SumOver(words, weight, i + 1)

\* the accumulators of analyze_sentiment after its loop over the evidence
Accumulated == Signals([i \in 1..Len(all_results) |-> TitleText(all_results[i])], claim)

\* C24: only items that overlap the claim are counted, and each counted item
\* adds 2 to confirmSignal for each confirming cue it matches, 2 to denySignal
\* for each denying cue and 1 to denySignal for each suspicious cue it matches.
C24_SignalPerCue ==
    (mode = "analyze" /\ pc = "done") =>
        /\ Accumulated.total = countedItems
        /\ Accumulated.confirm = SumOver(confirm_words, 2, 1)
        /\ Accumulated.deny = SumOver(deny_words, 2, 1) + SumOver(SUSPICIOUS_WORDS, 1, 1)
        /\ output.value =
              LET c == SumOver(confirm_words, 2, 1)
                  d == SumOver(deny_words, 2, 1) + SumOver(SUSPICIOUS_WORDS, 1, 1)
              IN  IF countedItems = 0 THEN <<"unverified", Frac(0, 1)>>
                  ELSE IF c > 2 * d THEN <<"true", Capped(c)>>
                  ELSE IF d > 2 * c THEN <<"false", Capped(d)>>
                  ELSE IF c > 0 \/ d > 0 THEN <<"partially_true", Frac(1, 2)>>
                  ELSE <<"unverified", Frac(3, 10)>>


(***************************************************************************)
(* The contradiction detector                                              *)
(***************************************************************************)
\* which cue lists of find_contradictions item i matches
MatchesConfirming(i) == AnyIn(contradiction_confirm_words, EvidenceText(i))
MatchesDenying(i) ==
    \/ AnyIn(contradiction_deny_words, EvidenceText(i))
    \/ AnyIn(SUSPICIOUS_WORDS, EvidenceText(i))

\* the classification of section 4.6
ConfirmingItems == {i \in 1..Len(all_results) : MatchesConfirming(i) /\ ~MatchesDenying(i)}
DenyingItems    == {i \in 1..Len(all_results) : MatchesDenying(i) /\ ~MatchesConfirming(i)}

\* C25: an item is confirming iff it matches a confirming cue and no denying
\* cue, denying iff it matches a denying (or suspicious) cue and no confirming
\* cue; an item matching both kinds is counted in neither group.
C25_Classification ==
    (mode = "verdict" /\ pc = "done") =>
        IF ConfirmingItems # {} /\ DenyingItems # {}
        THEN /\ Len(output.value.contradictions) = 1
             /\ output.value.contradictions[1].confirm_count = Cardinality(ConfirmingItems)
             /\ output.value.contradictions[1].deny_count = Cardinality(DenyingItems)
        ELSE output.value.contradictions = <<>>

\* the groups find_contradictions forms, as positions of the evidence list
ConfirmGroup == {i \in 1..Len(all_results) : IsConfirmSource(all_results[i])}
DenyGroup    == {i \in 1..Len(all_results) : IsDenySource(all_results[i])}

RecordShape(rep_confirm, rep_deny) ==
    IF ConfirmGroup # {} /\ DenyGroup # {}
    THEN /\ Len(output.value.contradictions) = 1
         /\ LET rec == output.value.contradictions[1]
            IN  /\ rec.confirm_count = Cardinality(ConfirmGroup)
                /\ rec.deny_count = Cardinality(DenyGroup)
                /\ rec.confirm_count >= 1 /\ rec.deny_count >= 1
                /\ rec.confirm_count + rec.deny_count <= Len(all_results)
                /\ rec.sample_confirm \in rep_confirm
                /\ rec.sample_deny \in rep_deny
    ELSE output.value.contradictions = <<>>

\* the members of a group that no other member outscores
HighestScored(group) ==
    {all_results[i] : i \in {k \in group : \A m \in group : all_results[m].score <= all_results[k].score}}

\* the member of a group that comes first in the evidence list
FirstOf(group) ==
    {all_results[i] : i \in {k \in group : \A m \in group : k <= m}}

\* C26 as stated: a record is emitted iff both groups are non-empty; it carries
\* the two group sizes and one representative of each group, the highest-scored
\* member of that group.
C26_RecordHighestScored ==
    (mode = "verdict" /\ pc = "done") =>
        RecordShape(HighestScored(ConfirmGroup), HighestScored(DenyGroup))

\* C26 as amended: a record is emitted iff both groups are non-empty; it carries
\* the two group sizes (each >= 1, summing to at most the number of evidence
\* items) and one representative of each group, the member that comes first in
\* the evidence list.
C26_RecordFirstMember ==
    (mode = "verdict" /\ pc = "done") =>
        RecordShape(FirstOf(ConfirmGroup), FirstOf(DenyGroup))

\* a record whose confirming group has two members, the second with the
\* higher score
C26_Witness ==
    /\ mode = "verdict" /\ pc = "done"
    /\ Len(all_results) = 3
    /\ ConfirmGroup = {1, 2} /\ DenyGroup = {3}
    /\ all_results[1].score < all_results[2].score
    /\ Len(output.value.contradictions) = 1
    /\ output.value.contradictions[1].sample_confirm = all_results[1]

(***************************************************************************)
(* The explanation                                                         *)
(***************************************************************************)
\* the template of a verdict and a confidence band
TemplateOf(verdict, confidence) ==
    CASE verdict = "true" ->
           IF FracLess(Frac(4, 5), confidence) THEN "true_high" ELSE "true_low"
      [] verdict = "false" ->
           IF FracLess(Frac(4, 5), confidence) THEN "false_high" ELSE "false_low"
      [] verdict = "partially_true" -> "partially_true"
      [] verdict = "unverified" -> "unverified"

\* C27: the explanation uses the template of the final verdict (after any
\* downgrade) and of the confidence band, and states the confidence
\* percentage.  (That it also states whether contradictions are present is not
\* needed to refute the claim: no template reads the contradictions.)
C27_ExplanationOfFinalVerdict ==
    (mode = "verdict" /\ pc = "done") =>
        LET r == output.value
        IN  /\ r.explanation.template = TemplateOf(r.verdict, r.confidence)
            /\ r.explanation.percent = Percent(r.confidence)


(***************************************************************************)
(* The threshold and the returned verdict                                  *)
(***************************************************************************)
\* C28: a returned verdict "true" or "false" has a confidence that is positive
\* and not below min_confidence; a result whose confidence is below
\* min_confidence has verdict "partially_true" or "unverified".
C28_DecisiveMeetsThreshold ==
    (mode = "verdict" /\ pc = "done") =>
        LET r == output.value
        IN  /\ r.verdict \in {"true", "false"} =>
                  (~FracLess(r.confidence, min_confidence) /\ r.confidence.num > 0)
            /\ FracLess(r.confidence, min_confidence) =>
                  r.verdict \in {"partially_true", "unverified"}

\* a verdict "false" returned at threshold 0.7, and the evidence is such that
\* one denying item less would have put it below the threshold
C28_Witness ==
    /\ mode = "verdict" /\ pc = "done"
    /\ min_confidence = Frac(7, 10)
    /\ output.value.verdict = "false"
    /\ output.value.confidence = Frac(1, 1)
    /\ countedItems = 3 /\ denySignal = 4

(***************************************************************************)
(* Independence of the order of the evidence                               *)
(***************************************************************************)
\* the rearrangements of n positions that are tried: every permutation of up
\* to three items; for longer lists every exchange of two positions (the
\* exchanges generate the permutations, and the lists over the vocabulary are
\* closed under them)
Rearrangements(n) ==
    IF n <= 3
    THEN Permutations(1..n)
    ELSE {[k \in 1..n |-> IF k = i THEN j ELSE IF k = j THEN i ELSE k] : i, j \in 1..n}

\* confirm_count and deny_count of a result, <<0, 0>> without a record
Counts(r) ==
    IF r.contradictions = <<>> THEN <<0, 0>>
    ELSE <<r.contradictions[1].confirm_count, r.contradictions[1].deny_count>>

\* C29: the verdict, the confidence and the contradiction counts do not depend
\* on the order of the evidence items: every permutation of the same evidence
\* gives the same values.
C29_OrderIndependent ==
    (mode = "verdict" /\ pc = "done") =>
        \A p \in Rearrangements(Len(all_results)) :
            LET permuted == [i \in 1..Len(all_results) |-> all_results[p[i]]]
                r2 == CheckResult(claim, min_confidence, permuted)
            IN  /\ r2.verdict = output.value.verdict
                /\ r2.confidence = output.value.confidence
                /\ Len(r2.contradictions) = Len(output.value.contradictions)
                /\ Counts(r2) = Counts(output.value)

\* three different items, one of them not overlapping the claim, with a
\* contradiction record
C29_Witness ==
    /\ mode = "verdict" /\ pc = "done"
    /\ Len(all_results) = 3 /\ countedItems = 2
    /\ Cardinality(Range(all_results)) = 3
    /\ Counts(output.value) = <<2, 1>>


(***************************************************************************)
(* The order of the stages of search()                                     *)
(***************************************************************************)
\* o is item x after ranking: the same item but for its score
SameItem(o, x) == [o EXCEPT !.score = x.score] = x

\* the merged items that pass the freshness filter, in merged order
FreshItems == filter_by_freshness(all_results, freshness)

\* C30: the stages run in the order filter, dedup, rank, truncate: every fresh
\* item is in the output, or is a duplicate of an earlier fresh item, or is
\* ranked below the cut (the output is full and no returned item has a lower
\* score); an item that fails the filter never suppresses a fresh one.
C30_StageOrder ==
    (mode = "search" /\ pc = "done") =>
        \A k \in 1..Len(FreshItems) :
            \/ \E i \in 1..Len(output.value) : SameItem(output.value[i], FreshItems[k])
            \/ \E j \in 1..(k - 1) : Duplicates(FreshItems[j], FreshItems[k])
            \/ /\ top > 0 => Len(output.value) = top
               /\ \A i \in 1..Len(output.value) :
                     RankedScore(FreshItems[k]) <= output.value[i].score

\* a stale item stands before a fresh item with the same url, and the fresh
\* item is returned
C30_Witness ==
    /\ mode = "search" /\ pc = "done"
    /\ \E j, k \in 1..Len(all_results) :
          /\ j < k
          /\ all_results[j].url = all_results[k].url
          /\ filter_by_freshness(<<all_results[j]>>, freshness) = <<>>
          /\ filter_by_freshness(<<all_results[k]>>, freshness) # <<>>
          /\ \E i \in 1..Len(output.value) : SameItem(output.value[i], all_results[k])

====
